---- MODULE Spec2Model ----
(***************************************************************************)
(* A model of the chain state engine of PhyoYazar/blockchain:              *)
(*   - the account database (foundation/blockchain/database/database.go),  *)
(*   - block hashing and validation (database/block.go),                   *)
(*   - State.MineNewBlock (foundation/blockchain/state, mining).           *)
(* uint64 values are modelled at a reduced width of UintBits bits: every   *)
(* arithmetic result is taken modulo 2^UintBits, as Go wraps modulo 2^64.  *)
(***************************************************************************)
EXTENDS Integers, Sequences, FiniteSets, TLC

VARIABLES
    accounts,     \* Database.accounts: map[AccountID]Account
    latestBlock,  \* Database.latestBlock
    blk,          \* the block whose transactions are being applied (argument of Apply*)
    start,        \* accounts when the application of blk began
    nTrans,       \* transactions of blk applied so far
    last,         \* the last database call: its arguments, its error, accounts before it
    prior,        \* per sender, the highest nonce applied successfully before the last call
    mempool,      \* State.mempool: key -> BlockTx
    ctxDone,      \* the context passed to MineNewBlock has been cancelled
    pc,           \* MineNewBlock: position in the function
    trans,        \* MineNewBlock: local trans (result of PickBest)
    mined,        \* MineNewBlock: local block / returned block
    idx,          \* MineNewBlock: transactions of trans already deleted from the mempool
    mineErr,      \* MineNewBlock: returned error
    removed,      \* MineNewBlock: what each Delete of the call took out of the mempool
    vBlock,       \* ValidateBlock: receiver b
    vPrev,        \* ValidateBlock: previousBlock
    vRoot,        \* ValidateBlock: stateRoot
    vResult,      \* ValidateBlock: returned error ("" for nil), "pending" before the call
    hBlock,       \* Block.Hash: receiver b
    hTwin,        \* Block.Hash: a second receiver, compared with the first
    hHashes,      \* Block.Hash: <<hash of hBlock, hash of hTwin>>, <<>> before the calls
    sDifficulty,  \* isHashSolved: difficulty
    sHash,        \* isHashSolved: hash
    sSolved,      \* isHashSolved: <<outcome>>, <<>> before the call
    poolLast,     \* the last mempool call: its argument, its error, the mempool before it
    rBlock,       \* the block written: argument of NewBlockData
    rBack,        \* <<what reading the written block data gave>>, <<>> before the calls
    mu,           \* Database.mu: the goroutine holding the write lock (0 for none), those holding the read lock
    thOp,         \* per goroutine, the database operation it runs ("none" when it runs none)
    thTx,         \* per goroutine, the transaction given to ApplyTransaction
    thPc,         \* per goroutine, the statement of the operation it executes next
    thCap         \* per goroutine, HashState: the capacity len(db.accounts) gave

dbVars   == <<accounts, latestBlock, blk, start, nTrans, last, prior>>
mineVars == <<mempool, ctxDone, pc, trans, mined, idx, mineErr, removed>>
valVars  == <<vBlock, vPrev, vRoot, vResult>>
fnVars   == <<hBlock, hTwin, hHashes, sDifficulty, sHash, sSolved>>
poolVars == <<poolLast>>
tripVars == <<rBlock, rBack>>
lockVars == <<mu, thOp, thTx, thPc, thCap>>
vars     == <<accounts, latestBlock, blk, start, nTrans, last, prior,
              mempool, ctxDone, pc, trans, mined, idx, mineErr, removed,
              vBlock, vPrev, vRoot, vResult,
              hBlock, hTwin, hHashes, sDifficulty, sHash, sSolved,
              poolLast, rBlock, rBack,
              mu, thOp, thTx, thPc, thCap>>

----------------------------------------------------------------------------
(* Bounds of the model.                                                    *)

\* Width of the modelled unsigned integers (uint64 in the source).
UintBits == 4
\* Largest transaction nonce submitted.
MaxNonce == 2
\* Transactions per block (genesis.TransPerBlock).
TransPerBlock == 2
\* Height of the latest block when a block is validated.
MaxNumber == 2

Modulus == 2 ^ UintBits
MaxUint == Modulus - 1
Uint    == 0 .. MaxUint

\* Go's wrapping unsigned arithmetic.
Add(a, b) == (a + b) % Modulus
Sub(a, b) == (a - b + Modulus) % Modulus
Mul(a, b) == (a * b) % Modulus

----------------------------------------------------------------------------
(* Accounts.                                                               *)

AccountIDs == {"A", "B", "C"}

\* The zero value of AccountID, read from a map entry that is missing.
NoAccountID == ""

\* The zero value of Account.
ZeroAccount == [ID |-> NoAccountID, Balance |-> 0, Nonce |-> 0]

newAccount(id, balance) == [ID |-> id, Balance |-> balance, Nonce |-> 0]

\* m[k] of a Go map: the zero value when k is missing.
MapGet(m, k) == IF k \in DOMAIN m THEN m[k] ELSE ZeroAccount

\* m[k] = v of a Go map.
MapPut(m, k, v) == [x \in (DOMAIN m) \cup {k} |-> IF x = k THEN v ELSE m[x]]

\* genesis.Genesis: chain id and starting balances.
GenesisChainID == 1
GenesisBalances == [a \in {"A", "B"} |-> IF a = "A" THEN 5 ELSE 3]

\* database.New: one account per genesis balance.
NewAccounts == [a \in DOMAIN GenesisBalances |-> newAccount(a, GenesisBalances[a])]

----------------------------------------------------------------------------
(* Transactions.                                                           *)

\* The signature of a BlockTx either recovers to an account or does not.
BadSig == "bad"

\* signature.FromAddress through SignedTx.FromAccount: the recovered sender.
FromAccount(tx) ==
    IF tx.Sig \in AccountIDs
    THEN [id |-> tx.Sig, err |-> FALSE]
    ELSE [id |-> NoAccountID, err |-> TRUE]

\* Field values of the transactions submitted to the model.
ChainIDs     == {GenesisChainID, GenesisChainID + 1}
Values       == {0, 1, MaxUint}
Tips         == {0, 1}
GasPrices    == {0, 1, Modulus \div 2, MaxUint}
GasUnitsSet  == {1, 2}

BlockTxs ==
    [ChainID : ChainIDs, Nonce : 0 .. MaxNonce, Sig : AccountIDs \cup {BadSig},
     ToID : AccountIDs, Value : Values, Tip : Tips,
     GasPrice : GasPrices, GasUnits : GasUnitsSet]

\* The zero value of BlockTx, for call records that carry no transaction.
NoTx ==
    [ChainID |-> 0, Nonce |-> 0, Sig |-> BadSig, ToID |-> NoAccountID,
     Value |-> 0, Tip |-> 0, GasPrice |-> 0, GasUnits |-> 0]

----------------------------------------------------------------------------
(* Database.ApplyMiningReward and Database.ApplyTransaction.               *)

ErrNil               == "nil"
ErrBadSignature      == "invalid signature"
ErrWrongChainID      == "transaction invalid, wrong chain id"
ErrSelfTransfer      == "transaction invalid, sending money to yourself"
ErrNonceTooSmall     == "transaction invalid, nonce too small"
ErrInsufficientFunds == "transaction invalid, insufficient funds"

\* db.accounts[id], or a new account when the entry does not exist.
Capture(accts, id) == IF id \in DOMAIN accts THEN accts[id] ELSE newAccount(id, 0)

ApplyMiningReward(accts, block) ==
    LET account == MapGet(accts, block.Header.BeneficiaryID)
        paid    == [account EXCEPT !.Balance = Add(@, block.Header.MiningReward)]
    IN  MapPut(accts, block.Header.BeneficiaryID, paid)

\* The gas fee charged: the product, or the whole balance when it is smaller.
GasFee(tx, from) ==
    LET gasFee == Mul(tx.GasPrice, tx.GasUnits)
    IN  IF gasFee > from.Balance THEN from.Balance ELSE gasFee

\* A funds check that lets an empty account through.
InsufficientFundsNoZero(tx, from) ==
    from.Balance < Add(tx.Value, tx.Tip)

\* The funds check, on the sender's account after the gas fee was taken.
InsufficientFunds(tx, from) ==
    from.Balance = 0 \/ from.Balance < Add(tx.Value, tx.Tip)

\* The accounting checks with the self-transfer check moved to the front.
AccountingChecksSelfFirst(tx, fromID, from) ==
    IF fromID = tx.ToID THEN ErrSelfTransfer
    ELSE IF tx.ChainID # GenesisChainID THEN ErrWrongChainID
    ELSE IF tx.Nonce <= from.Nonce THEN ErrNonceTooSmall
    ELSE IF InsufficientFunds(tx, from) THEN ErrInsufficientFunds
    ELSE ErrNil

\* The accounting checks without the nonce check.
AccountingChecksNoNonce(tx, fromID, from) ==
    IF tx.ChainID # GenesisChainID THEN ErrWrongChainID
    ELSE IF fromID = tx.ToID THEN ErrSelfTransfer
    ELSE IF InsufficientFunds(tx, from) THEN ErrInsufficientFunds
    ELSE ErrNil

\* The basic accounting checks, in the order of the source.
AccountingChecks(tx, fromID, from) ==
    IF tx.ChainID # GenesisChainID THEN ErrWrongChainID
    ELSE IF fromID = tx.ToID THEN ErrSelfTransfer
    ELSE IF tx.Nonce <= from.Nonce THEN ErrNonceTooSmall
    ELSE IF InsufficientFunds(tx, from) THEN ErrInsufficientFunds
    ELSE ErrNil

\* ApplyTransaction once the sender fromID is recovered: the accounts it
\* leaves and the error it returns.  from, to and bnfc are copies taken from
\* the map before anything is written, and are written back in the order
\* from, to, bnfc.
ApplySigned(accts, block, tx, fromID) ==
    LET bnfcID == block.Header.BeneficiaryID
        from0  == Capture(accts, fromID)
        to0    == Capture(accts, tx.ToID)
        bnfc0  == Capture(accts, bnfcID)
        fee    == GasFee(tx, from0)
        from1  == [from0 EXCEPT !.Balance = Sub(@, fee)]
        bnfc1  == [bnfc0 EXCEPT !.Balance = Add(@, fee)]
        accts1 == MapPut(MapPut(accts, fromID, from1), bnfcID, bnfc1)
        err    == AccountingChecks(tx, fromID, from1)
        from2  == [from1 EXCEPT !.Balance = Sub(Sub(@, tx.Value), tx.Tip),
                                !.Nonce = tx.Nonce]
        to2    == [to0 EXCEPT !.Balance = Add(@, tx.Value)]
        bnfc2  == [bnfc1 EXCEPT !.Balance = Add(@, tx.Tip)]
        accts2 == MapPut(MapPut(MapPut(accts1, fromID, from2), tx.ToID, to2),
                         bnfcID, bnfc2)
    IN  IF err # ErrNil
        THEN [accounts |-> accts1, err |-> err]
        ELSE [accounts |-> accts2, err |-> ErrNil]

\* An ApplyTransaction that captures the recipient's account, and stores it,
\* before it looks at the signature.
ApplyTransactionCaptureFirst(accts, block, tx) ==
    LET sig    == FromAccount(tx)
        stored == MapPut(accts, tx.ToID, Capture(accts, tx.ToID))
    IN  IF sig.err
        THEN [accounts |-> stored, err |-> ErrBadSignature]
        ELSE ApplySigned(stored, block, tx, sig.id)

\* ApplyTransaction: nothing is read or written when the sender cannot be
\* recovered from the signature.
ApplyTransaction(accts, block, tx) ==
    LET sig == FromAccount(tx)
    IN  IF sig.err
        THEN [accounts |-> accts, err |-> ErrBadSignature]
        ELSE ApplySigned(accts, block, tx, sig.id)

----------------------------------------------------------------------------
(* Hashes.  A hash is the string "0x" followed by 64 hex digits.           *)

HexDigits ==
    <<"0", "1", "2", "3", "4", "5", "6", "7",
      "8", "9", "a", "b", "c", "d", "e", "f">>

RECURSIVE Repeat(_, _)
Repeat(c, n) == IF n <= 0 THEN "" ELSE c \o Repeat(c, n - 1)

\* Number of hex digits of a hash.
HashDigits == 64

\* signature.ZeroHash
ZeroHash == "0x" \o Repeat("0", HashDigits)

\* The two hex digits of n, high digit first.
HexByte(n) == HexDigits[((n \div 16) % 16) + 1] \o HexDigits[(n % 16) + 1]

RECURSIVE HexBytes(_)
HexBytes(ns) == IF ns = <<>> THEN "" ELSE HexByte(Head(ns)) \o HexBytes(Tail(ns))

\* The value of a hex digit.
HexVal(c) == (CHOOSE i \in 1 .. 16 : HexDigits[i] = c) - 1

\* A digest of a hashed string field: its length and its first digits.
StrDigest(str) ==
    <<Len(str)>> \o
    [i \in 1 .. 6 |-> IF i + 2 <= Len(str) THEN HexVal(SubSeq(str, i + 2, i + 2)) ELSE 0]

\* signature.Hash, a stand-in for keccak-256 of the JSON of a value: a
\* deterministic 66-character string with `zeros` leading zero digits, whose
\* other digits are determined by the numbers `ns` that encode the value.
SignatureHash(zeros, ns) ==
    LET body == Repeat("0", zeros) \o "1" \o HexBytes(ns)
        kept == IF Len(body) > HashDigits THEN SubSeq(body, 1, HashDigits) ELSE body
    IN  "0x" \o kept \o Repeat("e", HashDigits - Len(kept))

AccountIndex(id) == IF id = "A" THEN 1 ELSE IF id = "B" THEN 2 ELSE IF id = "C" THEN 3 ELSE 0

\* byAccount: the account ids in ascending order.
SortedIDs == <<"A", "B", "C">>

RECURSIVE AccountNumbers(_, _)
AccountNumbers(accts, i) ==
    IF i > Len(SortedIDs) THEN <<>>
    ELSE (IF SortedIDs[i] \in DOMAIN accts
          THEN <<AccountIndex(accts[SortedIDs[i]].ID),
                 accts[SortedIDs[i]].Balance, accts[SortedIDs[i]].Nonce>>
          ELSE <<>>)
         \o AccountNumbers(accts, i + 1)

\* Database.HashState: the hash of the accounts sorted by account id.
HashState(accts) == SignatureHash(0, AccountNumbers(accts, 1))

TxNumbers(tx) ==
    <<tx.ChainID, tx.Nonce, AccountIndex(tx.Sig), AccountIndex(tx.ToID),
      tx.Value, tx.Tip, tx.GasPrice, tx.GasUnits>>

RECURSIVE TransNumbers(_)
TransNumbers(txs) ==
    IF txs = <<>> THEN <<>> ELSE TxNumbers(Head(txs)) \o TransNumbers(Tail(txs))

\* merkle.Tree.RootHex: the root over the ordered transactions.
RootHex(txs) == SignatureHash(0, <<Len(txs)>> \o TransNumbers(txs))

----------------------------------------------------------------------------
(* Blocks.                                                                 *)

\* The zero value of Block: Database.latestBlock before any block is stored.
ZeroBlock ==
    [Header |-> [Number |-> 0, PrevBlockHash |-> "", TimeStamp |-> 0,
                 BeneficiaryID |-> NoAccountID, Difficulty |-> 0,
                 MiningReward |-> 0, StateRoot |-> "", TransRoot |-> "",
                 Nonce |-> 0],
     Trans |-> <<>>]

HeaderNumbers(h) ==
    <<h.Number, h.TimeStamp, AccountIndex(h.BeneficiaryID), h.Difficulty,
      h.MiningReward>>
    \o StrDigest(h.PrevBlockHash) \o StrDigest(h.StateRoot) \o StrDigest(h.TransRoot)

\* A Block.Hash that hashes the transactions along with the header.
HashWithTrans(b) ==
    IF b.Header.Number = 0 THEN ZeroHash
    ELSE SignatureHash(b.Header.Nonce,
                       <<Len(b.Trans)>> \o TransNumbers(b.Trans) \o HeaderNumbers(b.Header))

\* Block.Hash: ZeroHash for block 0, else the hash of the header alone.  In
\* the stand-in hash the header nonce n yields n leading zero digits.
Hash(b) ==
    IF b.Header.Number = 0 THEN ZeroHash
    ELSE SignatureHash(b.Header.Nonce, HeaderNumbers(b.Header))

\* Values of the uint16 difficulty field.
Uint16Modulus == 65536

\* const match in isHashSolved: "0x" and 17 zeros.
match == "0x00000000000000000"
MatchZeros == Len(match) - 2

\* Length a hash must have.
HashLen == 66

\* isHashSolved: slicing match beyond its length panics.
isHashSolved(difficulty, hash) ==
    IF Len(hash) # HashLen THEN [panic |-> FALSE, solved |-> FALSE]
    ELSE LET d == (difficulty + 2) % Uint16Modulus
         IN  IF d > Len(match) THEN [panic |-> TRUE, solved |-> FALSE]
             ELSE [panic |-> FALSE, solved |-> SubSeq(hash, 1, d) = SubSeq(match, 1, d)]

\* int64(x) of a uint64 x.
Int64(x) == IF x >= Modulus \div 2 THEN x - Modulus ELSE x

\* time.Unix(sec, 0) keeps sec + unixToInternal as an int64 (62135596800 in
\* the library, scaled to the model's width here).
unixToInternal == 1
UnixTime(ts) == Int64(Add(ts, unixToInternal))

\* Time.Before
Before(t, u) == t < u

ErrChainForked    == "blockchain forked, start resync"
ErrDifficulty     == "block difficulty is less than previous block difficulty"
ErrHashNotSolved  == "invalid block hash"
ErrNotNextNumber  == "this block is not the next number"
ErrParentHash     == "parent block hash doesn't match our known parent"
ErrTimeStamp      == "block timestamp is before parent block"
ErrStateRoot      == "state of the accounts are wrong"
ErrMerkleRoot     == "merkle root does not match transactions"
Panic             == "panic: slice bounds out of range"

\* Block.ValidateBlock: the error returned (ErrNil for nil).
ValidateBlock(b, previousBlock, stateRoot) ==
    LET nextNumber == Add(previousBlock.Header.Number, 1)
        hash       == Hash(b)
        solved     == isHashSolved(b.Header.Difficulty, hash)
    IN  IF b.Header.Number >= Add(nextNumber, 2) THEN ErrChainForked
        ELSE IF b.Header.Difficulty < previousBlock.Header.Difficulty THEN ErrDifficulty
        ELSE IF solved.panic THEN Panic
        ELSE IF ~solved.solved THEN ErrHashNotSolved
        ELSE IF b.Header.Number # nextNumber THEN ErrNotNextNumber
        ELSE IF b.Header.PrevBlockHash # Hash(previousBlock) THEN ErrParentHash
        ELSE IF previousBlock.Header.TimeStamp > 0
                /\ Before(UnixTime(b.Header.TimeStamp),
                          UnixTime(previousBlock.Header.TimeStamp))
             THEN ErrTimeStamp
        ELSE IF b.Header.StateRoot # stateRoot THEN ErrStateRoot
        ELSE IF b.Header.TransRoot # RootHex(b.Trans) THEN ErrMerkleRoot
        ELSE ErrNil

----------------------------------------------------------------------------
(* The database under the application of one block: ApplyTransaction for   *)
(* each transaction of the block, then ApplyMiningReward.                  *)

\* Mining rewards of the blocks applied (genesis.MiningReward).
Rewards == {1, 2}

DbBlock(bnfc, reward) ==
    [ZeroBlock EXCEPT !.Header.Number = 1, !.Header.BeneficiaryID = bnfc,
                      !.Header.MiningReward = reward]

DbBlocks == {DbBlock(bnfc, reward) : bnfc \in AccountIDs, reward \in Rewards}

MineIdle ==
    /\ mempool = <<>>
    /\ ctxDone = FALSE
    /\ pc = "idle"
    /\ trans = <<>>
    /\ mined = ZeroBlock
    /\ idx = 0
    /\ mineErr = ErrNil
    /\ removed = <<>>

ValIdle ==
    /\ vBlock = ZeroBlock
    /\ vPrev = ZeroBlock
    /\ vRoot = ZeroHash
    /\ vResult = "idle"

FnIdle ==
    /\ hBlock = ZeroBlock
    /\ hTwin = ZeroBlock
    /\ hHashes = <<>>
    /\ sDifficulty = 0
    /\ sHash = ZeroHash
    /\ sSolved = <<>>

PoolIdle ==
    poolLast = [op |-> "New", tx |-> NoTx, err |-> ErrNil, before |-> <<>>]

TripIdle ==
    /\ rBlock = ZeroBlock
    /\ rBack = <<>>

\* The goroutines that call the database.
Threads == {1, 2}

LockIdle ==
    /\ mu = [writer |-> 0, readers |-> {}]
    /\ thOp = [t \in Threads |-> "none"]
    /\ thTx = [t \in Threads |-> NoTx]
    /\ thPc = [t \in Threads |-> "idle"]
    /\ thCap = [t \in Threads |-> 0]

DbNew ==
    /\ accounts = NewAccounts
    /\ latestBlock = ZeroBlock
    /\ start = NewAccounts
    /\ nTrans = 0
    /\ last = [op |-> "New", tx |-> NoTx, err |-> ErrNil, before |-> NewAccounts]
    /\ prior = [id \in AccountIDs |-> 0]

Init ==
    /\ DbNew
    /\ blk \in DbBlocks
    /\ MineIdle
    /\ ValIdle
    /\ FnIdle
    /\ PoolIdle
    /\ TripIdle
    /\ LockIdle

\* The block is still open: its mining reward has not been paid.
BlockOpen == last.op # "ApplyMiningReward"

\* prior once the last call is no longer the last one.
PriorNext ==
    IF /\ last.op = "ApplyTransaction" /\ last.err = ErrNil
       /\ last.tx.Nonce > prior[last.tx.Sig]
    THEN [prior EXCEPT ![last.tx.Sig] = last.tx.Nonce]
    ELSE prior

\* The ordinary transactions: gas price 1, one gas unit, small values.
SeqTxs ==
    {tx \in BlockTxs : /\ tx.GasPrice = 1 /\ tx.GasUnits = 1 /\ tx.Value <= 1
                       /\ tx.Nonce >= 1 /\ tx.ToID # "B" /\ tx.Sig # "B"}

\* One call of ApplyTransaction(blk, tx) with tx drawn from txs.
DbApplyTransaction(txs) ==
    \E tx \in txs :
        /\ BlockOpen
        /\ nTrans < TransPerBlock
        /\ LET r == ApplyTransaction(accounts, blk, tx)
           IN  /\ accounts' = r.accounts
               /\ last' = [op |-> "ApplyTransaction", tx |-> tx, err |-> r.err,
                           before |-> accounts]
        /\ nTrans' = nTrans + 1
        /\ prior' = PriorNext
        /\ UNCHANGED <<latestBlock, blk, start>>
        /\ UNCHANGED mineVars
        /\ UNCHANGED valVars
        /\ UNCHANGED fnVars
        /\ UNCHANGED poolVars
        /\ UNCHANGED tripVars
        /\ UNCHANGED lockVars
    /\ UNCHANGED fnVars
    /\ UNCHANGED poolVars
    /\ UNCHANGED tripVars
    /\ UNCHANGED lockVars

\* The call of ApplyMiningReward(blk) that ends the block.
DbApplyMiningReward ==
    /\ BlockOpen
    /\ accounts' = ApplyMiningReward(accounts, blk)
    /\ last' = [op |-> "ApplyMiningReward", tx |-> NoTx, err |-> ErrNil,
                before |-> accounts]
    /\ prior' = PriorNext
    /\ UNCHANGED <<latestBlock, blk, start, nTrans>>
    /\ UNCHANGED mineVars
    /\ UNCHANGED valVars
    /\ UNCHANGED fnVars
    /\ UNCHANGED poolVars
    /\ UNCHANGED tripVars
    /\ UNCHANGED lockVars

\* A block of up to TransPerBlock ordinary transactions applied to a new database.
ApplyBlockTx == DbApplyTransaction(SeqTxs)

Next == ApplyBlockTx \/ DbApplyMiningReward

Spec == Init /\ [][Next]_vars

\* The first transaction applied to a new database, drawn from all of BlockTxs.
ApplyFirstTx == last.op = "New" /\ DbApplyTransaction(BlockTxs)

NextTx == ApplyFirstTx \/ DbApplyMiningReward

SpecTx == Init /\ [][NextTx]_vars

----------------------------------------------------------------------------
(* Block.ValidateBlock applied to a received block.                        *)

\* Time stamps of block headers: around zero, and around the point where
\* the int64 conversion of time.Unix changes sign.
TimeStamps == {0, 1, 3, Modulus \div 2, MaxUint}

\* Difficulties of received blocks: small ones, the last one match covers,
\* the first one it does not cover, and the largest uint16.
Difficulties == {0, 1, 2, MatchZeros, MatchZeros + 1, Uint16Modulus - 1}

\* Header nonces of received blocks.
HeaderNonces == {0, 1, 2, MatchZeros}

\* A root that is not the hash of anything the model stores.
OtherHash == SignatureHash(0, <<MaxUint>>)

StateRoots == {ZeroHash, HashState(NewAccounts)}

\* The transactions of the received blocks.
SomeTx ==
    [ChainID |-> GenesisChainID, Nonce |-> 1, Sig |-> "A", ToID |-> "C",
     Value |-> 1, Tip |-> 1, GasPrice |-> 1, GasUnits |-> 1]

\* The latest block of the node: the zero block of a new database, or a
\* block of height 1 .. MaxNumber mined at difficulty 1.
PrevBlocks ==
    {ZeroBlock} \cup
    {[Header |-> [Number |-> n, PrevBlockHash |-> ZeroHash, TimeStamp |-> ts,
                  BeneficiaryID |-> "B", Difficulty |-> 1, MiningReward |-> 1,
                  StateRoot |-> ZeroHash, TransRoot |-> RootHex(<<SomeTx>>),
                  Nonce |-> 1],
      Trans |-> <<SomeTx>>] : n \in 1 .. MaxNumber, ts \in {0, 3, Modulus \div 2}}

\* The blocks received on top of the latest block prev.
ReceivedBlocks(prev) ==
    {[Header |-> [Number |-> n, PrevBlockHash |-> ph, TimeStamp |-> ts,
                  BeneficiaryID |-> "B", Difficulty |-> d, MiningReward |-> 1,
                  StateRoot |-> sr, TransRoot |-> tr, Nonce |-> nonce],
      Trans |-> <<SomeTx>>] :
        n \in 0 .. prev.Header.Number + 4,
        ph \in {Hash(prev), OtherHash},
        ts \in TimeStamps,
        d \in Difficulties,
        sr \in StateRoots,
        tr \in {RootHex(<<SomeTx>>), OtherHash},
        nonce \in HeaderNonces}

InitVal ==
    /\ DbNew
    /\ blk = DbBlock("B", 1)
    /\ MineIdle
    /\ vPrev \in PrevBlocks
    /\ vBlock \in ReceivedBlocks(vPrev)
    /\ vRoot \in StateRoots
    /\ vResult = "pending"
    /\ FnIdle
    /\ PoolIdle
    /\ TripIdle
    /\ LockIdle

Validate ==
    /\ vResult = "pending"
    /\ vResult' = ValidateBlock(vBlock, vPrev, vRoot)
    /\ UNCHANGED <<vBlock, vPrev, vRoot>>
    /\ UNCHANGED dbVars
    /\ UNCHANGED mineVars
    /\ UNCHANGED fnVars
    /\ UNCHANGED poolVars
    /\ UNCHANGED tripVars
    /\ UNCHANGED lockVars

NextVal == Validate

SpecVal == InitVal /\ [][NextVal]_vars

----------------------------------------------------------------------------
(* Block.Hash and isHashSolved applied to given arguments.                 *)

\* Transaction lists of the hashed blocks.
TransLists == {<<>>, <<SomeTx>>, <<SomeTx, SomeTx>>}

\* The blocks hashed: block 0 and later blocks, the transaction root of the
\* header chosen apart from the transactions the block carries.
HashedBlocks ==
    {[Header |-> [Number |-> n, PrevBlockHash |-> ZeroHash, TimeStamp |-> ts,
                  BeneficiaryID |-> bnfc, Difficulty |-> 1, MiningReward |-> 1,
                  StateRoot |-> ZeroHash, TransRoot |-> RootHex(rooted),
                  Nonce |-> nonce],
      Trans |-> txs] :
        n \in 0 .. MaxNumber, ts \in {0, 1}, bnfc \in {"A", "B"},
        rooted \in {<<>>, <<SomeTx>>}, nonce \in {0, 1},
        txs \in {<<>>, <<SomeTx>>}}

\* The blocks compared with b: the same header over each transaction list,
\* and one block with another header.
Twins(b) ==
    {[b EXCEPT !.Trans = txs] : txs \in TransLists}
    \cup {[b EXCEPT !.Header.Nonce = 2]}

\* Difficulties given to isHashSolved: those of the received blocks, and the
\* values next to the ends of the range match covers and of uint16.
SolveDifficulties ==
    Difficulties \cup {MatchZeros - 1, Uint16Modulus - 3, Uint16Modulus - 2}

\* Hash strings given to isHashSolved: hashes with a given number of leading
\* zeros, strings of another length, and a string without the "0x" prefix.
HashStrings ==
    {SignatureHash(zeros, <<1>>) : zeros \in {0, 1, 2, MatchZeros - 1, MatchZeros,
                                             MatchZeros + 1}}
    \cup {ZeroHash, "", "0x", SubSeq(ZeroHash, 1, HashLen - 1), ZeroHash \o "0",
          "1x" \o Repeat("0", HashDigits)}

InitFn ==
    /\ DbNew
    /\ blk = DbBlock("B", 1)
    /\ MineIdle
    /\ ValIdle
    /\ hBlock \in HashedBlocks
    /\ hTwin \in Twins(hBlock)
    /\ hHashes = <<>>
    /\ sDifficulty \in SolveDifficulties
    /\ sHash \in HashStrings
    /\ sSolved = <<>>
    /\ PoolIdle
    /\ TripIdle
    /\ LockIdle

\* hBlock.Hash() and hTwin.Hash()
CallHash ==
    /\ hHashes = <<>>
    /\ hHashes' = <<Hash(hBlock), Hash(hTwin)>>
    /\ UNCHANGED <<hBlock, hTwin, sDifficulty, sHash, sSolved>>
    /\ UNCHANGED dbVars
    /\ UNCHANGED mineVars
    /\ UNCHANGED valVars
    /\ UNCHANGED poolVars
    /\ UNCHANGED tripVars
    /\ UNCHANGED lockVars

\* isHashSolved(sDifficulty, sHash)
CallIsHashSolved ==
    /\ sSolved = <<>>
    /\ sSolved' = <<isHashSolved(sDifficulty, sHash)>>
    /\ UNCHANGED <<hBlock, hTwin, hHashes, sDifficulty, sHash>>
    /\ UNCHANGED dbVars
    /\ UNCHANGED mineVars
    /\ UNCHANGED valVars
    /\ UNCHANGED poolVars
    /\ UNCHANGED tripVars
    /\ UNCHANGED lockVars

NextFn == CallHash \/ CallIsHashSolved

SpecFn == InitFn /\ [][NextFn]_vars

----------------------------------------------------------------------------
(* BlockData: what is written to disk, and the block read back from it.    *)

\* merkle.NewTree: the leaves of the tree over values, the last one
\* duplicated when their number is odd.
NewTree(values) ==
    [Leafs |-> [i \in 1 .. Len(values) + (Len(values) % 2) |->
                   IF i <= Len(values) THEN [Value |-> values[i], dup |-> FALSE]
                   ELSE [Value |-> values[Len(values)], dup |-> TRUE]],
     err |-> ErrNil]

\* Every leaf of the tree, the duplicate included.
TreeLeafs(tree) == [i \in 1 .. Len(tree.Leafs) |-> tree.Leafs[i].Value]

RECURSIVE TreeValuesUpTo(_, _)
TreeValuesUpTo(tree, n) ==
    IF n = 0 THEN <<>>
    ELSE TreeValuesUpTo(tree, n - 1)
         \o (IF tree.Leafs[n].dup THEN <<>> ELSE <<tree.Leafs[n].Value>>)

\* Tree.Values: the leaves the tree was built over, in their order.
TreeValues(tree) == TreeValuesUpTo(tree, Len(tree.Leafs))

\* Tree.RootHex
TreeRootHex(tree) == RootHex(TreeValues(tree))

\* Block.MerkleTree of a block
MerkleTree(block) == NewTree(block.Trans)

\* NewBlockData that takes every leaf of the tree.
NewBlockDataLeafs(block) ==
    [Hash   |-> Hash(block),
     Header |-> block.Header,
     Trans  |-> TreeLeafs(MerkleTree(block))]

NewBlockData(block) ==
    [Hash   |-> Hash(block),
     Header |-> block.Header,
     Trans  |-> TreeValues(MerkleTree(block))]

\* ToBlock: the block and the error returned.
ToBlock(blockData) ==
    LET tree == NewTree(blockData.Trans)
    IN  IF tree.err # ErrNil
        THEN [block |-> ZeroBlock, err |-> tree.err]
        ELSE [block |-> [Header |-> blockData.Header, Trans |-> TreeValues(tree)],
              err |-> ErrNil]

ErrMerkleComparison == "merkle tree comparison failed"

\* readBlock from the block data on: the block of ToBlock and the error
\* returned (nil also when ToBlock fails).
readBlock(blockData) ==
    LET r == ToBlock(blockData)
    IN  IF r.err # ErrNil THEN [block |-> r.block, err |-> ErrNil]
        ELSE IF blockData.Header.TransRoot # TreeRootHex(MerkleTree(r.block))
        THEN [block |-> r.block, err |-> ErrMerkleComparison]
        ELSE [block |-> r.block, err |-> ErrNil]

\* A second transaction of the written blocks.
OtherTx == [SomeTx EXCEPT !.Nonce = 2, !.ToID = "B"]

\* Transaction lists of the written blocks: of even and odd length, and
\* the same two transactions in both orders.
WrittenLists ==
    {<<SomeTx>>, <<SomeTx, OtherTx>>, <<OtherTx, SomeTx>>, <<SomeTx, OtherTx, SomeTx>>}

\* The blocks written: mined blocks, whose transaction root is that of their
\* tree, and blocks whose header carries another root.
WrittenBlocks ==
    {[Header |-> [Number |-> n, PrevBlockHash |-> ZeroHash, TimeStamp |-> ts,
                  BeneficiaryID |-> "B", Difficulty |-> 1, MiningReward |-> 1,
                  StateRoot |-> ZeroHash, TransRoot |-> RootHex(rooted),
                  Nonce |-> nonce],
      Trans |-> txs] :
        n \in 1 .. MaxNumber, ts \in {0, 1}, nonce \in {0, 1},
        rooted \in WrittenLists, txs \in WrittenLists}

InitTrip ==
    /\ DbNew
    /\ blk = DbBlock("B", 1)
    /\ MineIdle
    /\ ValIdle
    /\ FnIdle
    /\ PoolIdle
    /\ rBlock \in WrittenBlocks
    /\ rBack = <<>>
    /\ LockIdle

\* The block is turned into block data and read back.
WriteAndRead ==
    /\ rBack = <<>>
    /\ rBack' = <<readBlock(NewBlockData(rBlock))>>
    /\ UNCHANGED rBlock
    /\ UNCHANGED dbVars
    /\ UNCHANGED mineVars
    /\ UNCHANGED valVars
    /\ UNCHANGED fnVars
    /\ UNCHANGED poolVars
    /\ UNCHANGED lockVars

NextTrip == WriteAndRead

SpecTrip == InitTrip /\ [][NextTrip]_vars

----------------------------------------------------------------------------
(* The database operations run by concurrent goroutines, statement by      *)
(* statement, under Database.mu.                                           *)

ReadOps  == {"LatestBlock", "CopyAccounts", "HashState"}
WriteOps == {"UpdateLatestBlock", "ApplyMiningReward", "ApplyTransaction"}

\* The transactions given to ApplyTransaction: one signed, one not.
LockTxs == {SomeTx, [SomeTx EXCEPT !.Sig = BadSig]}

\* The first statement of an operation.
FirstStatement(op) ==
    CASE op = "HashState"        -> "len"
      [] op = "ApplyTransaction" -> "FromAccount"
      [] op \in ReadOps          -> "RLock"
      [] OTHER                   -> "Lock"

InitLock ==
    /\ DbNew
    /\ blk = DbBlock("B", 1)
    /\ MineIdle
    /\ ValIdle
    /\ FnIdle
    /\ PoolIdle
    /\ TripIdle
    /\ LockIdle

\* Goroutine t calls a database operation.
LockCall(t) ==
    \E op \in ReadOps \cup WriteOps :
        \E tx \in IF op = "ApplyTransaction" THEN LockTxs ELSE {NoTx} :
            /\ thPc[t] = "idle"
            /\ thOp' = [thOp EXCEPT ![t] = op]
            /\ thTx' = [thTx EXCEPT ![t] = tx]
            /\ thPc' = [thPc EXCEPT ![t] = FirstStatement(op)]
            /\ thCap' = [thCap EXCEPT ![t] = 0]
            /\ UNCHANGED mu
            /\ UNCHANGED dbVars
            /\ UNCHANGED mineVars
            /\ UNCHANGED valVars
            /\ UNCHANGED fnVars
            /\ UNCHANGED poolVars
            /\ UNCHANGED tripVars

\* accounts once the write of goroutine u, which is about to run, is done.
WriteEffect(u) ==
    CASE thOp[u] = "ApplyTransaction" ->
             ApplySigned(accounts, blk, thTx[u], FromAccount(thTx[u]).id).accounts
      [] thOp[u] = "ApplyMiningReward" -> ApplyMiningReward(accounts, blk)
      [] OTHER -> accounts

\* What len(db.accounts) can give: the size of the map, or, read while
\* another goroutine writes the map, any size the map has during that write.
LenOutcomes(t) ==
    {Cardinality(DOMAIN accounts)} \cup
    UNION {Cardinality(DOMAIN accounts) .. Cardinality(DOMAIN WriteEffect(u)) :
             u \in {v \in Threads \ {t} : thPc[v] = "write"}}

\* HashState: accounts := make([]Account, 0, len(db.accounts)), before RLock.
HashStateLen(t) ==
    \E n \in LenOutcomes(t) :
        /\ thPc[t] = "len"
        /\ thCap' = [thCap EXCEPT ![t] = n]
        /\ thPc' = [thPc EXCEPT ![t] = "RLock"]
        /\ UNCHANGED <<mu, thOp, thTx>>
        /\ UNCHANGED dbVars
        /\ UNCHANGED mineVars
        /\ UNCHANGED valVars
        /\ UNCHANGED fnVars
        /\ UNCHANGED poolVars
        /\ UNCHANGED tripVars

\* ApplyTransaction: tx.FromAccount(), and the return on its error.
RecoverSender(t) ==
    /\ thPc[t] = "FromAccount"
    /\ IF FromAccount(thTx[t]).err
       THEN /\ thPc' = [thPc EXCEPT ![t] = "idle"]
            /\ thOp' = [thOp EXCEPT ![t] = "none"]
       ELSE /\ thPc' = [thPc EXCEPT ![t] = "Lock"]
            /\ UNCHANGED thOp
    /\ UNCHANGED <<mu, thTx, thCap>>
    /\ UNCHANGED dbVars
    /\ UNCHANGED mineVars
    /\ UNCHANGED valVars
    /\ UNCHANGED fnVars
    /\ UNCHANGED poolVars
    /\ UNCHANGED tripVars

\* db.mu.RLock(): waits while a goroutine holds the write lock.
RLock(t) ==
    /\ thPc[t] = "RLock"
    /\ mu.writer = 0
    /\ mu' = [mu EXCEPT !.readers = @ \cup {t}]
    /\ thPc' = [thPc EXCEPT ![t] = "read"]
    /\ UNCHANGED <<thOp, thTx, thCap>>
    /\ UNCHANGED dbVars
    /\ UNCHANGED mineVars
    /\ UNCHANGED valVars
    /\ UNCHANGED fnVars
    /\ UNCHANGED poolVars
    /\ UNCHANGED tripVars

\* db.mu.Lock(): waits while a goroutine holds the write or the read lock.
Lock(t) ==
    /\ thPc[t] = "Lock"
    /\ mu.writer = 0
    /\ mu.readers = {}
    /\ mu' = [mu EXCEPT !.writer = t]
    /\ thPc' = [thPc EXCEPT ![t] = "write"]
    /\ UNCHANGED <<thOp, thTx, thCap>>
    /\ UNCHANGED dbVars
    /\ UNCHANGED mineVars
    /\ UNCHANGED valVars
    /\ UNCHANGED fnVars
    /\ UNCHANGED poolVars
    /\ UNCHANGED tripVars

\* The read of LatestBlock, CopyAccounts or HashState: return db.latestBlock,
\* or the range over db.accounts.
LockRead(t) ==
    /\ thPc[t] = "read"
    /\ thPc' = [thPc EXCEPT ![t] = "RUnlock"]
    /\ UNCHANGED <<mu, thOp, thTx, thCap>>
    /\ UNCHANGED dbVars
    /\ UNCHANGED mineVars
    /\ UNCHANGED valVars
    /\ UNCHANGED fnVars
    /\ UNCHANGED poolVars
    /\ UNCHANGED tripVars

\* The write of UpdateLatestBlock: db.latestBlock = block.
WriteLatestBlock(t) ==
    /\ thPc[t] = "write"
    /\ thOp[t] = "UpdateLatestBlock"
    /\ latestBlock' = blk
    /\ thPc' = [thPc EXCEPT ![t] = "Unlock"]
    /\ UNCHANGED <<accounts, blk, start, nTrans, last, prior>>
    /\ UNCHANGED <<mu, thOp, thTx, thCap>>
    /\ UNCHANGED mineVars
    /\ UNCHANGED valVars
    /\ UNCHANGED fnVars
    /\ UNCHANGED poolVars
    /\ UNCHANGED tripVars

\* The writes of ApplyMiningReward and of ApplyTransaction from the lock on.
WriteAccounts(t) ==
    /\ thPc[t] = "write"
    /\ thOp[t] \in {"ApplyMiningReward", "ApplyTransaction"}
    /\ accounts' = WriteEffect(t)
    /\ last' = [op |-> thOp[t], tx |-> thTx[t],
                err |-> IF thOp[t] = "ApplyTransaction"
                        THEN ApplySigned(accounts, blk, thTx[t],
                                         FromAccount(thTx[t]).id).err
                        ELSE ErrNil,
                before |-> accounts]
    /\ prior' = PriorNext
    /\ thPc' = [thPc EXCEPT ![t] = "Unlock"]
    /\ UNCHANGED <<latestBlock, blk, start, nTrans>>
    /\ UNCHANGED <<mu, thOp, thTx, thCap>>
    /\ UNCHANGED mineVars
    /\ UNCHANGED valVars
    /\ UNCHANGED fnVars
    /\ UNCHANGED poolVars
    /\ UNCHANGED tripVars

\* db.mu.RUnlock() or db.mu.Unlock(), and the return of the operation.
Unlock(t) ==
    /\ thPc[t] \in {"RUnlock", "Unlock"}
    /\ mu' = IF thPc[t] = "Unlock" THEN [mu EXCEPT !.writer = 0]
                                   ELSE [mu EXCEPT !.readers = @ \ {t}]
    /\ thPc' = [thPc EXCEPT ![t] = "idle"]
    /\ thOp' = [thOp EXCEPT ![t] = "none"]
    /\ UNCHANGED <<thTx, thCap>>
    /\ UNCHANGED dbVars
    /\ UNCHANGED mineVars
    /\ UNCHANGED valVars
    /\ UNCHANGED fnVars
    /\ UNCHANGED poolVars
    /\ UNCHANGED tripVars

NextLock ==
    \E t \in Threads :
        \/ LockCall(t)
        \/ HashStateLen(t)
        \/ RecoverSender(t)
        \/ RLock(t)
        \/ Lock(t)
        \/ LockRead(t)
        \/ WriteLatestBlock(t)
        \/ WriteAccounts(t)
        \/ Unlock(t)

SpecLock == InitLock /\ [][NextLock]_vars

----------------------------------------------------------------------------
(* The mempool: a map from "from:nonce" to the pending BlockTx.            *)

ErrDuplicateOrLowerTip == "duplicate or lower tip"

mapKey(tx) == <<tx.Sig, tx.Nonce>>

\* Upsert that also replaces an entry by one of the same tip.
UpsertSameTip(mp, tx) ==
    IF mapKey(tx) \in DOMAIN mp /\ mp[mapKey(tx)].Tip > tx.Tip
    THEN [mempool |-> mp, err |-> ErrDuplicateOrLowerTip]
    ELSE [mempool |-> [k \in (DOMAIN mp) \cup {mapKey(tx)} |->
                          IF k = mapKey(tx) THEN tx ELSE mp[k]],
          err |-> ErrNil]

\* Upsert: an entry of the same key is replaced only by a higher tip.
Upsert(mp, tx) ==
    IF mapKey(tx) \in DOMAIN mp /\ mp[mapKey(tx)].Tip >= tx.Tip
    THEN [mempool |-> mp, err |-> ErrDuplicateOrLowerTip]
    ELSE [mempool |-> [k \in (DOMAIN mp) \cup {mapKey(tx)} |->
                          IF k = mapKey(tx) THEN tx ELSE mp[k]],
          err |-> ErrNil]

\* Delete: remove by key, no error on absence.
Delete(mp, tx) == [k \in (DOMAIN mp) \ {mapKey(tx)} |-> mp[k]]

Count(mp) == Cardinality(DOMAIN mp)

\* The transaction the mempool holds under the key of tx, NoTx when none.
Stored(mp, tx) == IF mapKey(tx) \in DOMAIN mp THEN mp[mapKey(tx)] ELSE NoTx

\* tx is picked before other: higher tip first, then the smaller key.
PickedBefore(tx, other) ==
    \/ tx.Tip > other.Tip
    \/ /\ tx.Tip = other.Tip
       /\ \/ AccountIndex(tx.Sig) < AccountIndex(other.Sig)
          \/ AccountIndex(tx.Sig) = AccountIndex(other.Sig) /\ tx.Nonce < other.Nonce

RECURSIVE SortBest(_)
SortBest(txs) ==
    IF txs = {} THEN <<>>
    ELSE LET best == CHOOSE tx \in txs : \A other \in txs \ {tx} : PickedBefore(tx, other)
         IN  <<best>> \o SortBest(txs \ {best})

\* PickBest(n): the first n pending transactions in pick order, all when n = 0.
PickBest(mp, n) ==
    LET sorted == SortBest({mp[k] : k \in DOMAIN mp})
    IN  IF n = 0 \/ n >= Len(sorted) THEN sorted ELSE SubSeq(sorted, 1, n)

\* The transactions given to the mempool: two senders, two nonces, two
\* recipients and two tips, so that a key meets lower, equal and higher tips
\* and transactions that differ only outside the key.
PoolTxs ==
    {tx \in BlockTxs : /\ tx.ChainID = GenesisChainID /\ tx.Nonce \in {1, 2}
                       /\ tx.Sig \in {"A", "B"} /\ tx.ToID \in {"B", "C"}
                       /\ tx.Value = 1 /\ tx.GasPrice = 1 /\ tx.GasUnits = 1}

InitPool ==
    /\ DbNew
    /\ blk = DbBlock("B", 1)
    /\ MineIdle
    /\ ValIdle
    /\ FnIdle
    /\ PoolIdle
    /\ TripIdle
    /\ LockIdle

\* mempool.Upsert(tx)
PoolUpsert ==
    \E tx \in PoolTxs :
        /\ mempool' = Upsert(mempool, tx).mempool
        /\ poolLast' = [op |-> "Upsert", tx |-> tx, err |-> Upsert(mempool, tx).err,
                        before |-> mempool]
        /\ UNCHANGED <<ctxDone, pc, trans, mined, idx, mineErr, removed>>
        /\ UNCHANGED dbVars
        /\ UNCHANGED valVars
        /\ UNCHANGED fnVars
        /\ UNCHANGED tripVars
        /\ UNCHANGED lockVars

\* mempool.Delete(tx)
PoolDelete ==
    \E tx \in PoolTxs :
        /\ mempool' = Delete(mempool, tx)
        /\ poolLast' = [op |-> "Delete", tx |-> tx, err |-> ErrNil, before |-> mempool]
        /\ UNCHANGED <<ctxDone, pc, trans, mined, idx, mineErr, removed>>
        /\ UNCHANGED dbVars
        /\ UNCHANGED valVars
        /\ UNCHANGED fnVars
        /\ UNCHANGED tripVars
        /\ UNCHANGED lockVars

NextPool == PoolUpsert \/ PoolDelete

SpecPool == InitPool /\ [][NextPool]_vars

----------------------------------------------------------------------------
(* Proof of work and State.MineNewBlock.                                   *)

ErrNoTransactions == "no transactions in mempool"
ErrCancelled      == "mining cancelled"
ErrCtxCanceled    == "context canceled"

\* genesis.Difficulty and genesis.MiningReward
GenesisDifficulty   == 1
GenesisMiningReward == 2

\* State.beneficiaryID, from Config.
BeneficiaryID == "B"

\* The header nonce the search ends with: the first that solves the hash.
SolvingNonce(b) ==
    CHOOSE n \in 0 .. MatchZeros :
        /\ isHashSolved(b.Header.Difficulty, Hash([b EXCEPT !.Header.Nonce = n])).solved
        /\ \A m \in 0 .. n - 1 :
              ~isHashSolved(b.Header.Difficulty, Hash([b EXCEPT !.Header.Nonce = m])).solved

\* database.POW: the block mined on args.PrevBlock at time now.
POW(args, now) ==
    LET b == [Header |-> [Number |-> Add(args.PrevBlock.Header.Number, 1),
                          PrevBlockHash |-> Hash(args.PrevBlock),
                          TimeStamp |-> now,
                          BeneficiaryID |-> args.BeneficiaryID,
                          Difficulty |-> args.Difficulty,
                          MiningReward |-> args.MiningReward,
                          StateRoot |-> args.StateRoot,
                          TransRoot |-> RootHex(args.Trans),
                          Nonce |-> 0],
               Trans |-> args.Trans]
    IN  [b EXCEPT !.Header.Nonce = SolvingNonce(b)]

\* The transactions wallets submit: signed, for this chain.
MempoolTxs ==
    {tx \in BlockTxs : /\ tx.ChainID = GenesisChainID /\ tx.Nonce = 1
                       /\ tx.Sig \in AccountIDs /\ tx.ToID = "A" /\ tx.Sig # tx.ToID
                       /\ tx.Value = 1 /\ tx.GasPrice = 1 /\ tx.GasUnits = 1}
    \cup
    {tx \in BlockTxs : /\ tx.ChainID = GenesisChainID /\ tx.Nonce = 1
                       /\ tx.Sig = "A" /\ tx.ToID = "C"
                       /\ tx.Value = 1 /\ tx.GasPrice = 1 /\ tx.GasUnits = 1}

\* Times at which a block is mined.
MiningTimes == {1, 2}

InitMine ==
    /\ DbNew
    /\ blk = DbBlock(BeneficiaryID, GenesisMiningReward)
    /\ MineIdle
    /\ ValIdle
    /\ FnIdle
    /\ PoolIdle
    /\ TripIdle
    /\ LockIdle

\* A wallet transaction is submitted: State.UpsertWalletTransaction.
SubmitTx ==
    \E tx \in MempoolTxs :
        /\ mempool' = Upsert(mempool, tx).mempool
        /\ UNCHANGED <<ctxDone, pc, trans, mined, idx, mineErr, removed>>
        /\ UNCHANGED dbVars
        /\ UNCHANGED valVars
        /\ UNCHANGED fnVars
        /\ UNCHANGED poolVars
        /\ UNCHANGED tripVars
        /\ UNCHANGED lockVars
    /\ UNCHANGED fnVars
    /\ UNCHANGED poolVars
    /\ UNCHANGED tripVars
    /\ UNCHANGED lockVars

\* The context of the running MineNewBlock is cancelled.
Cancel ==
    /\ pc \notin {"idle", "returned"}
    /\ ~ctxDone
    /\ ctxDone' = TRUE
    /\ UNCHANGED <<mempool, pc, trans, mined, idx, mineErr, removed>>
    /\ UNCHANGED dbVars
    /\ UNCHANGED valVars
    /\ UNCHANGED fnVars
    /\ UNCHANGED poolVars
    /\ UNCHANGED tripVars
    /\ UNCHANGED lockVars

\* MineNewBlock is called, with a context that is not cancelled.
MineCall ==
    /\ pc \in {"idle", "returned"}
    /\ pc' = "count"
    /\ ctxDone' = FALSE
    /\ trans' = <<>>
    /\ mined' = ZeroBlock
    /\ idx' = 0
    /\ mineErr' = ErrNil
    /\ removed' = <<>>
    /\ UNCHANGED mempool
    /\ UNCHANGED dbVars
    /\ UNCHANGED valVars
    /\ UNCHANGED fnVars
    /\ UNCHANGED poolVars
    /\ UNCHANGED tripVars
    /\ UNCHANGED lockVars

\* A MineNewBlock that goes on to PickBest without looking at the count.
MineCountNoCheck ==
    /\ pc = "count"
    /\ pc' = "pick"
    /\ UNCHANGED <<mempool, ctxDone, trans, mined, idx, mineErr, removed>>
    /\ UNCHANGED dbVars
    /\ UNCHANGED valVars
    /\ UNCHANGED fnVars
    /\ UNCHANGED poolVars
    /\ UNCHANGED tripVars
    /\ UNCHANGED lockVars

\* if s.mempool.Count() == 0 { return database.Block{}, ErrNoTransactions }
MineCount ==
    /\ pc = "count"
    /\ IF Count(mempool) = 0
       THEN pc' = "returned" /\ mineErr' = ErrNoTransactions
       ELSE pc' = "pick" /\ mineErr' = mineErr
    /\ UNCHANGED <<mempool, ctxDone, trans, mined, idx, removed>>
    /\ UNCHANGED dbVars
    /\ UNCHANGED valVars
    /\ UNCHANGED fnVars
    /\ UNCHANGED poolVars
    /\ UNCHANGED tripVars
    /\ UNCHANGED lockVars

\* trans := s.mempool.PickBest(s.genesis.TransPerBlock)
MinePick ==
    /\ pc = "pick"
    /\ trans' = PickBest(mempool, TransPerBlock)
    /\ pc' = "pow"
    /\ UNCHANGED <<mempool, ctxDone, mined, idx, mineErr, removed>>
    /\ UNCHANGED dbVars
    /\ UNCHANGED valVars
    /\ UNCHANGED fnVars
    /\ UNCHANGED poolVars
    /\ UNCHANGED tripVars
    /\ UNCHANGED lockVars

\* block, err := database.POW(ctx, ...): an error when the context is cancelled
\* during the search.
MinePOW ==
    /\ pc = "pow"
    /\ IF ctxDone
       THEN /\ pc' = "returned"
            /\ mineErr' = ErrCancelled
            /\ mined' = mined
       ELSE \E now \in MiningTimes :
            /\ mined' = POW([BeneficiaryID |-> BeneficiaryID,
                             Difficulty |-> GenesisDifficulty,
                             MiningReward |-> GenesisMiningReward,
                             PrevBlock |-> latestBlock,
                             StateRoot |-> ZeroHash,
                             Trans |-> trans], now)
            /\ pc' = "ctx"
            /\ mineErr' = mineErr
    /\ UNCHANGED <<mempool, ctxDone, trans, idx, removed>>
    /\ UNCHANGED dbVars
    /\ UNCHANGED valVars
    /\ UNCHANGED fnVars
    /\ UNCHANGED poolVars
    /\ UNCHANGED tripVars
    /\ UNCHANGED lockVars

\* A MineNewBlock that looks at ctx.Err() only after the loop that deletes
\* the transactions.
MineCtxErrAfterDelete ==
    /\ pc = "ctx"
    /\ pc' = "delete"
    /\ IF ctxDone
       THEN mineErr' = ErrCtxCanceled /\ mined' = ZeroBlock
       ELSE mineErr' = mineErr /\ mined' = mined
    /\ UNCHANGED <<mempool, ctxDone, trans, idx, removed>>
    /\ UNCHANGED dbVars
    /\ UNCHANGED valVars
    /\ UNCHANGED fnVars
    /\ UNCHANGED poolVars
    /\ UNCHANGED tripVars
    /\ UNCHANGED lockVars

\* if ctx.Err() != nil { return database.Block{}, ctx.Err() }
MineCtxErr ==
    /\ pc = "ctx"
    /\ IF ctxDone
       THEN pc' = "returned" /\ mineErr' = ErrCtxCanceled /\ mined' = ZeroBlock
       ELSE pc' = "delete" /\ mineErr' = mineErr /\ mined' = mined
    /\ UNCHANGED <<mempool, ctxDone, trans, idx, removed>>
    /\ UNCHANGED dbVars
    /\ UNCHANGED valVars
    /\ UNCHANGED fnVars
    /\ UNCHANGED poolVars
    /\ UNCHANGED tripVars
    /\ UNCHANGED lockVars

\* for _, tx := range trans { s.mempool.Delete(tx) }, one transaction a step,
\* and then return block, nil.
MineDelete ==
    /\ pc = "delete"
    /\ IF idx < Len(trans)
       THEN /\ mempool' = Delete(mempool, trans[idx + 1])
            /\ removed' = Append(removed, Stored(mempool, trans[idx + 1]))
            /\ idx' = idx + 1
            /\ pc' = pc
       ELSE /\ pc' = "returned"
            /\ UNCHANGED <<mempool, idx, removed>>
    /\ UNCHANGED <<ctxDone, trans, mined, mineErr>>
    /\ UNCHANGED dbVars
    /\ UNCHANGED valVars
    /\ UNCHANGED fnVars
    /\ UNCHANGED poolVars
    /\ UNCHANGED tripVars
    /\ UNCHANGED lockVars

NextMine ==
    \/ SubmitTx
    \/ Cancel
    \/ MineCall
    \/ MineCount
    \/ MinePick
    \/ MinePOW
    \/ MineCtxErr
    \/ MineDelete

SpecMine == InitMine /\ [][NextMine]_vars

----------------------------------------------------------------------------
(* Claims about the account database.  They read the record of the last    *)
(* call: its transaction, its error and the accounts before it.            *)

Applied  == last.op = "ApplyTransaction"
Signed   == Applied /\ last.err # ErrBadSignature
Bnfc     == blk.Header.BeneficiaryID
Sender   == last.tx.Sig

\* The sender's account and the fee taken from it, as the call found them.
SenderBefore == Capture(last.before, Sender)
FeeCharged   == GasFee(last.tx, SenderBefore)
PostGas      == Sub(SenderBefore.Balance, FeeCharged)

BalanceOf(accts, id) == MapGet(accts, id).Balance
NonceOf(accts, id)   == MapGet(accts, id).Nonce

\* The increase of an account's balance over the last call, modulo 2^UintBits.
Increase(id) == Sub(BalanceOf(accounts, id), BalanceOf(last.before, id))

\* What the roles an account plays in a successful transaction add to it.
RoleIncrease(id) ==
    Sub(Add(IF id = last.tx.ToID THEN last.tx.Value ELSE 0,
            IF id = Bnfc THEN Add(FeeCharged, last.tx.Tip) ELSE 0),
        IF id = Sender THEN Add(FeeCharged, Add(last.tx.Value, last.tx.Tip)) ELSE 0)

\* What the roles an account plays in the gas fee transfer add to it.
GasIncrease(id) ==
    Sub(IF id = Bnfc THEN FeeCharged ELSE 0, IF id = Sender THEN FeeCharged ELSE 0)

\* C1: when apply_transaction succeeds, the sender loses gas_fee + value + tip,
\* the recipient gains value and the beneficiary gains gas_fee + tip; an
\* account that plays two roles changes by the sum of its role deltas.
C1_RoleDeltas ==
    Applied /\ last.err = ErrNil =>
        \A id \in AccountIDs : Increase(id) = RoleIncrease(id)

RECURSIVE SumBalances(_, _)
SumBalances(accts, ids) ==
    IF ids = {} THEN 0
    ELSE LET id == CHOOSE x \in ids : TRUE
         IN  accts[id].Balance + SumBalances(accts, ids \ {id})

TotalBalance(accts) == SumBalances(accts, DOMAIN accts)

\* C2: applying a block (apply_transaction for each transaction, succeeding or
\* failing, then apply_mining_reward) leaves the sum of all balances equal to
\* the sum before the block plus the block's mining reward.
C2_Conservation ==
    last.op = "ApplyMiningReward" =>
        TotalBalance(accounts) = TotalBalance(start) + blk.Header.MiningReward

\* C3: for a transaction whose signature recovers, min(gas_price * gas_units,
\* sender balance) moves from the sender to the beneficiary, and that transfer
\* is what the database holds when the call returns an error.
C3_GasFeeOnError ==
    Signed /\ last.err # ErrNil =>
        \A id \in AccountIDs : Increase(id) = GasIncrease(id)

\* C4: after a transaction of sender S with nonce n was applied successfully,
\* S's stored nonce is n, and every later apply_transaction of a transaction
\* of S for this chain, not sent to S itself, with a nonce <= n fails with the
\* nonce-too-small error, whichever account is the beneficiary.
C4_NonceReplay ==
    Signed =>
        /\ last.err = ErrNil => NonceOf(accounts, Sender) = last.tx.Nonce
        /\ (/\ last.tx.Nonce <= prior[Sender]
            /\ last.tx.ChainID = GenesisChainID
            /\ last.tx.ToID # Sender)
              => last.err = ErrNonceTooSmall

\* C9: after the gas fee, apply_transaction checks chain id, self-transfer,
\* nonce and funds in that order and returns the error of the first check
\* that fails.
C9_ChecksInOrder ==
    Signed =>
        LET chainOK == last.tx.ChainID = GenesisChainID
            selfOK  == Sender # last.tx.ToID
            nonceOK == last.tx.Nonce > SenderBefore.Nonce
        IN  /\ ~chainOK => last.err = ErrWrongChainID
            /\ chainOK /\ ~selfOK => last.err = ErrSelfTransfer
            /\ chainOK /\ selfOK /\ ~nonceOK => last.err = ErrNonceTooSmall
            /\ chainOK /\ selfOK /\ nonceOK
                  => last.err \in {ErrInsufficientFunds, ErrNil}

\* A transaction that breaks the chain-id, self-transfer and nonce rules at
\* once was given the chain-id error.
C9_Witness ==
    /\ Signed
    /\ last.tx.ChainID # GenesisChainID
    /\ Sender = last.tx.ToID
    /\ last.tx.Nonce <= SenderBefore.Nonce
    /\ SenderBefore.Nonce > 0
    /\ last.err = ErrWrongChainID

PassesEarlierChecks ==
    /\ Signed
    /\ last.tx.ChainID = GenesisChainID
    /\ Sender # last.tx.ToID
    /\ last.tx.Nonce > SenderBefore.Nonce

\* C10 as claimed: a transaction that passes the chain-id, self-transfer and
\* nonce checks and whose balance after the gas fee is at least value + tip is
\* applied successfully, value = 0 and tip = 0 included.
C10_FundsCheckAsClaimed ==
    PassesEarlierChecks /\ PostGas >= last.tx.Value + last.tx.Tip
        => last.err = ErrNil

\* C10 as amended: such a transaction is applied successfully when its balance
\* after the gas fee is not 0 and is at least value + tip; when that balance
\* is 0 it fails with the insufficient-funds error, value = 0 and tip = 0
\* included.
C10_FundsCheck ==
    PassesEarlierChecks =>
        /\ PostGas >= last.tx.Value + last.tx.Tip /\ PostGas # 0
              => last.err = ErrNil
        /\ PostGas = 0 => last.err = ErrInsufficientFunds

\* A transaction of value 0 and tip 0 that passes the earlier checks was
\* refused because the gas fee emptied the sender's balance.
C10_Witness ==
    /\ PassesEarlierChecks
    /\ last.tx.Value = 0 /\ last.tx.Tip = 0
    /\ PostGas = 0
    /\ FeeCharged > 0
    /\ last.err = ErrInsufficientFunds

\* The gas fee as a number, without the wrap of the unsigned product.
TrueGasFee == last.tx.GasPrice * last.tx.GasUnits

\* C11: when gas_price * gas_units exceeds the sender's balance, a
\* transaction that passes the chain-id, self-transfer and nonce checks fails
\* with the insufficient-funds error, the sender's whole balance having moved
\* to the beneficiary: the sender is left with 0 and the beneficiary is
\* credited with the sender's previous balance.
C11_GasFeeClamp ==
    PassesEarlierChecks /\ TrueGasFee > SenderBefore.Balance =>
        /\ last.err = ErrInsufficientFunds
        /\ \A id \in AccountIDs :
              Increase(id) =
                  Sub(IF id = Bnfc THEN SenderBefore.Balance ELSE 0,
                      IF id = Sender THEN SenderBefore.Balance ELSE 0)

\* C12: a transaction succeeds only if the sender's balance after the gas fee
\* is at least the sum value + tip, taken without wrap, so that nothing is
\* subtracted from a balance that does not hold it.
C12_NoWrapBelowZero ==
    Signed /\ last.err = ErrNil =>
        PostGas >= last.tx.Value + last.tx.Tip

\* C13: when gas_price * gas_units does not fit the unsigned integer, the fee
\* is the maximum value, so the sender's whole balance is charged (stated for
\* a sender that is not the beneficiary).
C13_GasFeeSaturates ==
    Signed /\ TrueGasFee > MaxUint /\ Sender # Bnfc =>
        /\ FeeCharged = SenderBefore.Balance
        /\ BalanceOf(accounts, Sender) = 0

\* C14: over a call of apply_transaction or apply_mining_reward no account's
\* nonce decreases, and a nonce changes only for the sender of a transaction
\* that was applied successfully.
C14_NonceMonotonic ==
    \A id \in AccountIDs :
        /\ NonceOf(accounts, id) >= NonceOf(last.before, id)
        /\ NonceOf(accounts, id) # NonceOf(last.before, id)
              => Applied /\ last.err = ErrNil /\ id = Sender

\* A sender whose nonce was already above 0 had it raised by a second
\* successful transaction.
C14_Witness ==
    /\ Applied /\ last.err = ErrNil
    /\ NonceOf(last.before, Sender) > 0
    /\ NonceOf(accounts, Sender) > NonceOf(last.before, Sender)

\* C15: when the sender cannot be recovered from the signature,
\* apply_transaction returns the bad-signature error and leaves the accounts
\* as they were: no gas fee is charged and no account is created.
C15_BadSignatureFrame ==
    Applied /\ FromAccount(last.tx).err =>
        /\ last.err = ErrBadSignature
        /\ accounts = last.before

\* A transaction with a bad signature, sent to an account that does not
\* exist, was refused by a database that earlier transactions had changed.
C15_Witness ==
    /\ Applied /\ FromAccount(last.tx).err
    /\ last.err = ErrBadSignature
    /\ last.tx.ToID \notin DOMAIN last.before
    /\ last.before # NewAccounts

----------------------------------------------------------------------------
(* Claims about State.MineNewBlock, checked under SpecMine.                *)

RECURSIVE ApplyTransactions(_, _, _)
ApplyTransactions(accts, block, txs) ==
    IF txs = <<>> THEN accts
    ELSE ApplyTransactions(ApplyTransaction(accts, block, Head(txs)).accounts,
                           block, Tail(txs))

\* The accounts after a block is committed: its transactions applied in order,
\* then its mining reward.
Committed(accts, block) ==
    ApplyMiningReward(ApplyTransactions(accts, block, block.Trans), block)

MinedOK == pc = "returned" /\ mineErr = ErrNil

\* C5: after mine_new_block returns a block, every transaction of the block has
\* been applied to the accounts in pick_best order, the mining reward has been
\* applied, and latest_block is the returned block.
C5_MinedBlockCommitted ==
    MinedOK =>
        /\ accounts = Committed(start, mined)
        /\ latestBlock = mined

\* C6: the block mine_new_block returns carries the hash_state() of the accounts
\* after its transactions and mining reward, not the ZeroHash sentinel.
C6_StateRootReplaced ==
    MinedOK =>
        /\ mined.Header.StateRoot # ZeroHash
        /\ mined.Header.StateRoot = HashState(Committed(start, mined))

Cancelled == pc = "returned" /\ mineErr \in {ErrCancelled, ErrCtxCanceled}

\* C18: when mine_new_block returns a cancellation error (from proof-of-work,
\* or from the check of the token right after it), it returns no block and
\* has changed nothing: no transaction was removed from the mempool and
\* accounts and latest_block are as they were.
C18_CancelFrame ==
    Cancelled =>
        /\ removed = <<>>
        /\ \A i \in 1 .. Len(trans) : Stored(mempool, trans[i]) # NoTx
        /\ mined = ZeroBlock
        /\ accounts = start
        /\ latestBlock = ZeroBlock

\* A call that had picked its transactions and mined its block returned the
\* error of the cancelled context.
C18_Witness ==
    /\ Cancelled
    /\ mineErr = ErrCtxCanceled
    /\ trans # <<>>
    /\ removed = <<>>

\* C19: mine_new_block goes past the count of the mempool only when the
\* mempool is not empty; when it is empty the call returns ErrNoTransactions,
\* having picked no transaction, run no proof-of-work and changed neither the
\* mempool nor the database.
C19_NoTransactions ==
    /\ pc = "pick" => Count(mempool) > 0
    /\ pc \in {"pow", "ctx", "delete"} => trans # <<>>
    /\ pc = "returned" /\ mineErr = ErrNoTransactions =>
          /\ trans = <<>>
          /\ mined = ZeroBlock
          /\ removed = <<>>
          /\ accounts = start
          /\ latestBlock = ZeroBlock

\* A call on an empty mempool returned ErrNoTransactions.
C19_Witness ==
    /\ pc = "returned"
    /\ mineErr = ErrNoTransactions
    /\ Count(mempool) = 0
    /\ mined = ZeroBlock

\* C20: under any interleaving with submissions, a successful mine_new_block
\* removes from the mempool exactly the transactions of the mined block: each
\* Delete of the call takes out the transaction it was called with.
C20_RemovesIncluded ==
    MinedOK =>
        /\ Len(removed) = Len(trans)
        /\ \A i \in 1 .. Len(removed) : removed[i] = trans[i]

----------------------------------------------------------------------------
(* Claims about Block.ValidateBlock, checked under SpecVal.                *)

\* The errors ValidateBlock forms with fmt.Errorf: the block is invalid.
BlockInvalidErrors ==
    {ErrDifficulty, ErrHashNotSolved, ErrNotNextNumber, ErrParentHash,
     ErrTimeStamp, ErrStateRoot, ErrMerkleRoot}

\* The rules of validate_block other than the rule on the block number, with
\* the time stamps compared as unsigned values.
OtherRulesMet(b, prev, stateRoot) ==
    /\ b.Header.PrevBlockHash = Hash(prev)
    /\ b.Header.Difficulty >= prev.Header.Difficulty
    /\ isHashSolved(b.Header.Difficulty, Hash(b)).solved
    /\ (prev.Header.TimeStamp = 0 \/ b.Header.TimeStamp >= prev.Header.TimeStamp)
    /\ b.Header.StateRoot = stateRoot
    /\ b.Header.TransRoot = RootHex(b.Trans)

\* C7: validate_block returns success only if the block is the next number,
\* names its parent's hash, is at least as difficult as its parent, has a
\* solved hash, is not older than its parent (time stamps compared as
\* unsigned values, a parent time stamp of 0 exempting it), and carries the
\* expected state root and the root of its own Merkle tree.
C7_SuccessOnlyIfAllRules ==
    vResult = ErrNil =>
        /\ vBlock.Header.Number = vPrev.Header.Number + 1
        /\ OtherRulesMet(vBlock, vPrev, vRoot)

\* C8: a block numbered prev + 3 or more gets ErrChainForked whatever its
\* other fields are; a block numbered prev + 2 is rejected with a
\* block-invalid error that is not ErrChainForked; a block numbered prev + 1
\* that meets the other rules is accepted.
C8_ForkThresholds ==
    vResult # "pending" =>
        /\ (vBlock.Header.Number >= vPrev.Header.Number + 3
                => vResult = ErrChainForked)
        /\ (vBlock.Header.Number = vPrev.Header.Number + 2
                => vResult \in BlockInvalidErrors)
        /\ (vBlock.Header.Number = vPrev.Header.Number + 1
            /\ OtherRulesMet(vBlock, vPrev, vRoot)
                => vResult = ErrNil)

----------------------------------------------------------------------------
(* Claims about isHashSolved and Block.Hash, checked under SpecFn.         *)

\* The number of "0" digits a string has directly after its first two characters.
RECURSIVE ZerosFrom(_, _)
ZerosFrom(str, i) ==
    IF i <= Len(str) /\ SubSeq(str, i, i) = "0" THEN 1 + ZerosFrom(str, i + 1) ELSE 0

LeadingZeros(hash) == ZerosFrom(hash, 3)

\* C16: for every difficulty of the 16-bit field and every hash string,
\* is_hash_solved returns a boolean, and returns true exactly when the hash is
\* 66 characters long and has at least `difficulty` zero digits directly after
\* the "0x" prefix; with difficulty 0 every 66-character "0x" hash is solved.
C16_IsHashSolved ==
    sSolved # <<>> =>
        /\ ~sSolved[1].panic
        /\ sSolved[1].solved
              <=> /\ Len(sHash) = HashLen
                  /\ SubSeq(sHash, 1, 2) = "0x"
                  /\ LeadingZeros(sHash) >= sDifficulty

\* C17: Block.hash() is ZeroHash for every block whose number is 0, whatever
\* its other fields; two blocks with equal headers have equal hashes, even
\* when their transactions differ.
C17_HashOfHeader ==
    hHashes # <<>> =>
        /\ hBlock.Header.Number = 0 => hHashes[1] = ZeroHash
        /\ hBlock.Header = hTwin.Header => hHashes[1] = hHashes[2]

\* Two blocks past block 0 with one header and different transactions were
\* hashed.
C17_Witness ==
    /\ hHashes # <<>>
    /\ hBlock.Header.Number > 0
    /\ hBlock.Header = hTwin.Header
    /\ hBlock.Trans # hTwin.Trans
    /\ hHashes[1] # ZeroHash
    /\ hHashes[1] = hHashes[2]

----------------------------------------------------------------------------
(* Further properties of the account database and Block.ValidateBlock.    *)

\* C24: when apply_transaction returns an error after the signature was
\* recovered, the only change is the gas fee moved from the sender's balance to
\* the beneficiary's (those two accounts created when missing): no nonce
\* changes, no value or tip moves, no other account is created or modified.
C24_ErrorFrame ==
    Signed /\ last.err # ErrNil =>
        \A id \in AccountIDs :
            IF id \in {Sender, Bnfc}
            THEN /\ id \in DOMAIN accounts
                 /\ NonceOf(accounts, id) = NonceOf(last.before, id)
                 /\ Increase(id) = GasIncrease(id)
            ELSE /\ id \in DOMAIN accounts <=> id \in DOMAIN last.before
                 /\ id \in DOMAIN last.before => accounts[id] = last.before[id]

\* The error of the first rule of validate_block that the block breaks, the
\* rules taken in the order fork check, difficulty, hash solved, next number,
\* parent hash, time stamp, state root, transaction root.
FirstRuleBroken(b, prev, stateRoot) ==
    IF b.Header.Number >= prev.Header.Number + 3 THEN ErrChainForked
    ELSE IF b.Header.Difficulty < prev.Header.Difficulty THEN ErrDifficulty
    ELSE IF ~(/\ Len(Hash(b)) = HashLen
              /\ LeadingZeros(Hash(b)) >= b.Header.Difficulty) THEN ErrHashNotSolved
    ELSE IF b.Header.Number # prev.Header.Number + 1 THEN ErrNotNextNumber
    ELSE IF b.Header.PrevBlockHash # Hash(prev) THEN ErrParentHash
    ELSE IF prev.Header.TimeStamp > 0 /\ b.Header.TimeStamp < prev.Header.TimeStamp
         THEN ErrTimeStamp
    ELSE IF b.Header.StateRoot # stateRoot THEN ErrStateRoot
    ELSE IF b.Header.TransRoot # RootHex(b.Trans) THEN ErrMerkleRoot
    ELSE ErrNil

\* C25: validate_block returns the error of the first rule, in that order,
\* that the block breaks, also when the block breaks several rules.
C25_RulesInOrder ==
    vResult # "pending" => vResult = FirstRuleBroken(vBlock, vPrev, vRoot)

\* C26: every entry of the accounts map holds an account whose id is its map
\* key, whichever account is the beneficiary and whether or not it had an
\* account before.
C26_AccountIDIsKey ==
    \A id \in DOMAIN accounts : accounts[id].ID = id

----------------------------------------------------------------------------
(* The mempool under upsert and delete calls.                              *)

\* C21: the mempool holds at most one transaction per (sender, nonce) key,
\* each under its own key; an upsert for a key the mempool holds replaces
\* the entry only when the new tip is strictly higher, and otherwise returns
\* ErrDuplicateOrLowerTip and leaves the mempool as it was.
C21_OnePerKey ==
    /\ \A k \in DOMAIN mempool : mapKey(mempool[k]) = k
    /\ \A k1, k2 \in DOMAIN mempool :
          mapKey(mempool[k1]) = mapKey(mempool[k2]) => mempool[k1] = mempool[k2]
    /\ poolLast.op = "Upsert" =>
          LET tx     == poolLast.tx
              before == poolLast.before
              key    == <<tx.Sig, tx.Nonce>>
          IN  IF key \in DOMAIN before /\ ~(tx.Tip > before[key].Tip)
              THEN /\ poolLast.err = ErrDuplicateOrLowerTip
                   /\ mempool = before
              ELSE /\ poolLast.err = ErrNil
                   /\ DOMAIN mempool = DOMAIN before \cup {key}
                   /\ mempool[key] = tx
                   /\ \A k \in DOMAIN before \ {key} : mempool[k] = before[k]

\* An upsert of another transaction with the tip of the entry held was refused.
C21_Witness ==
    /\ poolLast.op = "Upsert"
    /\ poolLast.err = ErrDuplicateOrLowerTip
    /\ <<poolLast.tx.Sig, poolLast.tx.Nonce>> \in DOMAIN poolLast.before
    /\ poolLast.before[<<poolLast.tx.Sig, poolLast.tx.Nonce>>].Tip = poolLast.tx.Tip
    /\ poolLast.before[<<poolLast.tx.Sig, poolLast.tx.Nonce>>] # poolLast.tx
    /\ Cardinality(DOMAIN mempool) > 1

----------------------------------------------------------------------------
(* Block data written and read back.                                       *)

\* C22: ToBlock(NewBlockData(B)) is a block equal to B, with the same header,
\* the same transactions in the same order and the same Merkle root, and for
\* a block B whose header carries the root of its tree the comparison of the
\* stored transaction root with the rebuilt tree succeeds.
C22_RoundTrip ==
    rBack # <<>> =>
        /\ ToBlock(NewBlockData(rBlock)).err = ErrNil
        /\ ToBlock(NewBlockData(rBlock)).block = rBlock
        /\ rBack[1].block.Header = rBlock.Header
        /\ rBack[1].block.Trans = rBlock.Trans
        /\ TreeRootHex(MerkleTree(rBack[1].block)) = TreeRootHex(MerkleTree(rBlock))
        /\ rBlock.Header.TransRoot = TreeRootHex(MerkleTree(rBlock))
              => rBack[1].err = ErrNil
        /\ rBlock.Header.TransRoot # TreeRootHex(MerkleTree(rBlock))
              => rBack[1].err = ErrMerkleComparison

\* A mined block of three transactions, two of them different, was written
\* and read back.
C22_Witness ==
    /\ rBack # <<>>
    /\ Len(rBlock.Trans) = 3
    /\ rBlock.Trans[1] # rBlock.Trans[2]
    /\ rBlock.Header.TransRoot = RootHex(rBlock.Trans)
    /\ rBack[1].err = ErrNil

----------------------------------------------------------------------------
(* The database lock.                                                      *)

\* Goroutine t is at a statement that reads or writes db.accounts or
\* db.latestBlock.
Accessing(t) == thPc[t] \in {"len", "read", "write"}

\* C23: every access of a database operation to the accounts map or to
\* latest_block happens under the database lock, so while one operation holds
\* the write lock for its mutation no other operation is at an access.
C23_AccessUnderLock ==
    \A t, u \in Threads :
        t # u /\ mu.writer = u /\ thPc[u] = "write" => ~Accessing(t)

====
